---- MODULE Spec2Model ----
(***************************************************************************)
(* Seat inventory and booking of the CrowdEase backend (src/server.js).    *)
(*                                                                         *)
(* The persistent state is the Event collection: per event the             *)
(* seatingLayout array and the document version key (__v) that the ODM     *)
(* keeps.  Every request handler is an async function: it loads a private  *)
(* copy of the event document (Event.findById), works on that copy and     *)
(* writes it back (event.save()).  Handlers of different requests          *)
(* interleave at their awaits, so a handler is two steps: the load and     *)
(* the rest (validate, mutate the copy, save, respond).  Each request is   *)
(* served by its own run of its handler.                                   *)
(*                                                                         *)
(* event.save() is modelled as the ODM performs it:                        *)
(*   - seat fields assigned in place (seat.occupied = ...) are written     *)
(*     as positional updates of exactly those seats, conditional on the    *)
(*     stored version being the loaded one; the version is not advanced;   *)
(*   - an assignment of the whole array (event.seatingLayout = ...) is     *)
(*     written as a replacement of the array, conditional on the stored    *)
(*     version being the loaded one, and advances the version;             *)
(*   - a save whose condition fails throws, and the handler's catch        *)
(*     answers 500.                                                        *)
(***************************************************************************)
EXTENDS Naturals, Sequences, FiniteSets

(* ------------------------------ bounds --------------------------------- *)

\* Number of requests served in one behaviour, each by its own handler run;
\* any number of them can be in flight at the same time.
NumRequests == 2

\* Seat generation: the longest seatSections array, the most rows and the
\* most seats per row of a section.
MaxSections == 2
MaxRows == 2
MaxSeatsPerRow == 2

(* ----------------------------- constants ------------------------------- *)

\* The per-event seat cap of PUT book-seats (server.js:449).
MaxSeatsPerUser == 6

\* String.fromCharCode(64 + rowNum) (server.js:158).
RowLabelBase == 64

Null == "null"
NoDoc == [seatingLayout |-> << >>, v |-> 0, exists |-> FALSE,
          organizerId |-> Null, eventName |-> Null]

Procs == 1..NumRequests

(* --------------------------- seat generation --------------------------- *)

Letters == <<"A","B","C","D","E","F","G","H","I","J","K","L","M",
             "N","O","P","Q","R","S","T","U","V","W","X","Y","Z">>
LowerLetters == <<"a","b","c","d","e","f","g","h","i","j","k","l","m",
                  "n","o","p","q","r","s","t","u","v","w","x","y","z">>
DigitChars == <<"0","1","2","3","4","5","6","7","8","9">>

\* The UTF-16 code units 65..122 in order: A..Z, the six signs 91..96
\* (written by their code), a..z.
CodeUnits == Letters \o <<"u91", "u92", "u93", "u94", "u95", "u96">> \o LowerLetters

\* String.fromCharCode(code), for the code units 65..122.
FromCharCode(code) == CodeUnits[code - 64]

\* One character lowercased (String.prototype.toLowerCase, per character).
LowerChar(c) ==
    IF \E i \in 1..26 : Letters[i] = c
    THEN LowerLetters[CHOOSE i \in 1..26 : Letters[i] = c]
    ELSE c

ToLowerCase(str) == [i \in 1..Len(str) |-> LowerChar(str[i])]

\* Decimal rendering of a number inside a template literal.
RECURSIVE NumberToString(_)
NumberToString(n) ==
    IF n < 10 THEN << DigitChars[n + 1] >>
    ELSE NumberToString(n \div 10) \o << DigitChars[(n % 10) + 1] >>

\* Faulty variant of SeatId: the bare `${rowLabel}${s}` of the earlier
\* revision, without the section prefix.
SeatIdBare(sectionName, rowLabel, s) ==
    << rowLabel >> \o NumberToString(s)

\* `${sectionName}-${rowLabel}${s}`: strings are sequences of characters.
SeatId(sectionName, rowLabel, s) ==
    sectionName \o << "-", rowLabel >> \o NumberToString(s)

\* Faulty variant of RowSeats: the seats of a row are pushed from the last
\* column down to the first.
RowSeatsDescending(sectionName, rowNum, seatsPerRow) ==
    [k \in 1..seatsPerRow |->
        [id       |-> SeatId(sectionName, FromCharCode(RowLabelBase + rowNum),
                             seatsPerRow + 1 - k),
         row      |-> rowNum,
         column   |-> seatsPerRow + 1 - k,
         type     |-> ToLowerCase(sectionName),
         occupied |-> FALSE,
         attendee |-> Null]]

\* The seats of one row, s = 1..seatsPerRow.
RowSeats(sectionName, rowNum, seatsPerRow) ==
    [s \in 1..seatsPerRow |->
        [id       |-> SeatId(sectionName, FromCharCode(RowLabelBase + rowNum), s),
         row      |-> rowNum,
         column   |-> s,
         type     |-> ToLowerCase(sectionName),
         occupied |-> FALSE,
         attendee |-> Null]]

\* generateSeats(sectionName, rows, seatsPerRow): rows r = 0..rows-1 in order.
RECURSIVE GenerateRows(_, _, _)
GenerateRows(sectionName, rows, seatsPerRow) ==
    IF rows = 0 THEN << >>
    ELSE GenerateRows(sectionName, rows - 1, seatsPerRow)
         \o RowSeats(sectionName, rows, seatsPerRow)

generateSeats(sectionName, rows, seatsPerRow) ==
    GenerateRows(sectionName, rows, seatsPerRow)

\* seatSections.forEach(section => seatingLayout = seatingLayout.concat(...)).
RECURSIVE ConcatSections(_)
ConcatSections(seatSections) ==
    IF seatSections = << >> THEN << >>
    ELSE LET n == Len(seatSections)
             section == seatSections[n]
         IN ConcatSections(SubSeq(seatSections, 1, n - 1))
            \o generateSeats(section.sectionName, section.rows, section.seatsPerRow)

\* The eventSchema's seatingLayout element: id, row, column, occupied,
\* attendee.  A field the schema does not declare (type) is not stored.
CastSeat(seat) ==
    [id |-> seat.id, row |-> seat.row, column |-> seat.column,
     occupied |-> seat.occupied, attendee |-> seat.attendee]

CastLayout(layout) == [i \in 1..Len(layout) |-> CastSeat(layout[i])]

(* ------------------------------- inputs -------------------------------- *)

\* Event ids.  A request that names an event before it is created finds
\* no event.
EventIds == {"e1"}

\* Event ids when a second event exists beside the one that is booked.
AllEventIds == {"e1", "e2"}

\* The identity that creates the events (req.user.id of POST /api/events).
Organizers == {"a1"}

\* eventName of a creation body; of an update body: a new name, or absent.
EventNames == {"n1"}
BodyEventNames == {"n2", Null}

\* Identities the Auth collaborator can verify (req.user.id).
Users == {"a1", "a2"}

\* The seatSections an organizer submits.
SectionLists ==
    { << [sectionName |-> <<"G">>, rows |-> 1, seatsPerRow |-> 7] >> }

\* The seatSections of creation bodies, for the generation on its own: every
\* array of up to MaxSections sections (names may repeat, sizes may be zero),
\* and the 2 x 3 section "Gold".
SectionNames == { <<"G">>, <<"V">> }
SectionSpecs ==
    [sectionName : SectionNames, rows : 0..MaxRows, seatsPerRow : 0..MaxSeatsPerRow]
GoldSection == [sectionName |-> <<"G", "o", "l", "d">>, rows |-> 2, seatsPerRow |-> 3]
GenSectionLists ==
    UNION { [1..n -> SectionSpecs] : n \in 0..MaxSections } \cup { << GoldSection >> }

StdLayout == ConcatSections(<< [sectionName |-> <<"G">>, rows |-> 1, seatsPerRow |-> 7] >>)
IdAt(i) == StdLayout[i].id
IdsFrom(i, j) == [k \in 1..(j - i + 1) |-> IdAt(i + k - 1)]
UnknownSeatId == <<"Z", "-", "A", "1">>

\* The seatIds arrays of booking request bodies.
SeatIdLists ==
    { IdsFrom(1, 5), IdsFrom(6, 7), IdsFrom(6, 6), << IdAt(7), UnknownSeatId >> }

\* attendeeId of a request body: a user id, or absent.
BodyAttendees == {"a2", Null}

\* occupied of a seat-status request body; a body without the field acts as
\* one with false (undefined || x is x, like false || x).
BodyOccupied == {"true", "false"}

\* :seatId of a seat-status request.
SeatParams == { IdAt(6), UnknownSeatId }

NoReq == [op |-> "none", eventId |-> Null, user |-> Null, seatIds |-> << >>,
          attendeeId |-> Null, seatId |-> << >>, occupied |-> "false",
          eventName |-> Null]
NoResp == [status |-> 0, reason |-> "none", ids |-> << >>]

(* ------------------------------- state --------------------------------- *)

VARIABLES
    db,        \* the Event collection: event id -> stored document
    pc,        \* per handler run: "idle" (no request yet), "loaded" (after
               \* findById), "done" (answered)
    req,       \* per handler run: the request it serves
    event,     \* per handler run: the event document as it loaded it
    resp,      \* per handler run: the response it sent
    succeeded, \* booking requests that were answered 200 so far
    seatSections,  \* POST /api/events: the parsed seatSections of the last run
    seatingLayout  \* POST /api/events: the layout that run generated

vars == << db, pc, req, event, resp, succeeded, seatSections, seatingLayout >>

Init ==
    /\ db = [e \in EventIds |-> NoDoc]
    /\ pc = [p \in Procs |-> "idle"]
    /\ req = [p \in Procs |-> NoReq]
    /\ event = [p \in Procs |-> NoDoc]
    /\ resp = [p \in Procs |-> NoResp]
    /\ succeeded = {}
    /\ seatSections = << >>
    /\ seatingLayout = << >>

\* The same, with room for a second event in the collection.
FrameInit ==
    /\ db = [e \in AllEventIds |-> NoDoc]
    /\ pc = [p \in Procs |-> "idle"]
    /\ req = [p \in Procs |-> NoReq]
    /\ event = [p \in Procs |-> NoDoc]
    /\ resp = [p \in Procs |-> NoResp]
    /\ succeeded = {}
    /\ seatSections = << >>
    /\ seatingLayout = << >>

(* ------------------------------ helpers -------------------------------- *)

EventExists(e) == e \in DOMAIN db /\ db[e].exists

Response(status, reason, ids) == [status |-> status, reason |-> reason, ids |-> ids]

\* seatingLayout.find(seat => seat.id === id): index of the first seat with
\* that id, 0 when there is none.
FindSeat(layout, id) ==
    IF \E i \in 1..Len(layout) : layout[i].id = id
    THEN CHOOSE i \in 1..Len(layout) :
            /\ layout[i].id = id
            /\ \A j \in 1..(i - 1) : layout[j].id # id
    ELSE 0

\* Faulty variant of SeatsBookedByUser: the stored reference is compared
\* with the caller's id string without toString(), which never matches.
SeatsBookedByUserNoToString(layout, user) == {}

\* seatingLayout.filter(seat => seat.attendee?.toString() === req.user.id)
SeatsBookedByUser(layout, user) ==
    { i \in 1..Len(layout) : layout[i].attendee # Null /\ layout[i].attendee = user }

\* Faulty variant of AlreadyBookedSeats: a conflict is seen only when every
\* requested seat is occupied (every in place of filter).
AlreadyBookedSeatsEvery(layout, seatIds) ==
    IF \A k \in 1..Len(seatIds) :
          \E i \in 1..Len(layout) : layout[i].id = seatIds[k] /\ layout[i].occupied
    THEN seatIds
    ELSE << >>

\* seatIds.filter(id => seatingLayout.find(seat => seat.id === id && seat.occupied))
AlreadyBookedSeats(layout, seatIds) ==
    SelectSeq(seatIds,
              LAMBDA id : \E i \in 1..Len(layout) :
                              layout[i].id = id /\ layout[i].occupied)

\* seatIds.forEach(seatId => { seat = find(seatId);
\*   if (seat && !seat.occupied) { seat.occupied = true; seat.attendee = user } })
RECURSIVE BookEach(_, _, _)
BookEach(layout, seatIds, user) ==
    IF seatIds = << >> THEN layout
    ELSE LET i == FindSeat(layout, Head(seatIds))
             next == IF i # 0 /\ ~layout[i].occupied
                     THEN [layout EXCEPT ![i].occupied = TRUE, ![i].attendee = user]
                     ELSE layout
         IN BookEach(next, Tail(seatIds), user)

\* seatIds.includes(id)
Includes(seatIds, id) == \E k \in 1..Len(seatIds) : seatIds[k] = id

\* seatingLayout.map(seat => seatIds.includes(seat.id)
\*     ? {...seat, occupied: true, attendee: attendeeId} : seat)
UpdatedLayout(layout, seatIds, attendeeId) ==
    [i \in 1..Len(layout) |->
        IF Includes(seatIds, layout[i].id)
        THEN [layout[i] EXCEPT !.occupied = TRUE, !.attendee = attendeeId]
        ELSE layout[i]]

(* ------------------------------ event.save() --------------------------- *)

\* The seats of the loaded copy whose fields were assigned a new value.
ModifiedSeats(loaded, layout) ==
    { i \in 1..Len(layout) : layout[i] # loaded.seatingLayout[i] }

\* A stored seat after the positional update of the fields that changed on
\* the copy.
MergeSeat(stored, old, new) ==
    [stored EXCEPT
        !.occupied = IF new.occupied # old.occupied THEN new.occupied ELSE @,
        !.attendee = IF new.attendee # old.attendee THEN new.attendee ELSE @]

\* The condition of a save that touches the array: the stored document is
\* still at the loaded version.
VersionMatches(e, loaded) == db[e].exists /\ db[e].v = loaded.v

\* save() after in-place assignments to seats: nothing to write when no
\* seat changed; otherwise conditional on the version.
SeatSaveOk(e, loaded, layout) ==
    ModifiedSeats(loaded, layout) = {} \/ VersionMatches(e, loaded)

SeatSaveDoc(e, loaded, layout) ==
    [db[e] EXCEPT !.seatingLayout =
        [i \in 1..Len(@) |->
            IF i \in ModifiedSeats(loaded, layout)
            THEN MergeSeat(@[i], loaded.seatingLayout[i], layout[i])
            ELSE @[i]]]

\* save() after event.seatingLayout = layout; markModified('seatingLayout'):
\* the array is replaced and the version advanced.
ArraySaveDoc(e, layout) ==
    [db[e] EXCEPT !.seatingLayout = CastLayout(layout), !.v = @ + 1]

(* ------------------------------ actions -------------------------------- *)

\* The handler p answers: res.status(status).json(...).
Reply(p, status, reason, ids) ==
    /\ pc' = [pc EXCEPT ![p] = "done"]
    /\ resp' = [resp EXCEPT ![p] = Response(status, reason, ids)]

\* A request arrives; handler runs are numbered in the order of arrival.
Accept(p, r) ==
    /\ pc[p] = "idle"
    /\ \A q \in Procs : q < p => pc[q] # "idle"
    /\ req' = [req EXCEPT ![p] = r]

\* Event.findById(eventId), then (booking routes) Venue.findOne({eventId}).
\* The venue query filters on a path the venue schema does not declare, so
\* whether it yields a document depends on the ODM's query strictness: both
\* outcomes are possible.
FindEvent(p, e, needsVenue) ==
    \/ /\ ~EventExists(e)
       /\ Reply(p, 404, "EventNotFound", << >>)
       /\ UNCHANGED event
    \/ /\ EventExists(e)
       /\ needsVenue
       /\ Reply(p, 404, "VenueNotFound", << >>)
       /\ UNCHANGED event
    \/ /\ EventExists(e)
       /\ pc' = [pc EXCEPT ![p] = "loaded"]
       /\ event' = [event EXCEPT ![p] = db[e]]
       /\ UNCHANGED resp

\* POST /api/events with a seatSections array and the three images: the
\* layout is generated and the event inserted with it.
CreateEvent(e, organizerId, eventName, sections) ==
    /\ ~db[e].exists
    /\ seatSections' = sections
    /\ seatingLayout' = ConcatSections(sections)
    /\ db' = [db EXCEPT ![e] =
                [seatingLayout |-> CastLayout(seatingLayout'),
                 v |-> 0, exists |-> TRUE,
                 organizerId |-> organizerId, eventName |-> eventName]]
    /\ UNCHANGED << pc, req, event, resp, succeeded >>

\* PUT /api/events/:eventId/book-seats, up to the loads.
BookSeatsFind(p, e, user, seatIds) ==
    /\ Accept(p, [NoReq EXCEPT !.op = "put", !.eventId = e, !.user = user,
                                !.seatIds = seatIds])
    /\ FindEvent(p, e, TRUE)
    /\ UNCHANGED << db, succeeded, seatSections, seatingLayout >>

\* PUT /api/events/:eventId/book-seats, from the cap check to the response.
BookSeats(p) ==
    /\ pc[p] = "loaded"
    /\ req[p].op = "put"
    /\ LET r == req[p]
           e == r.eventId
           layout == event[p].seatingLayout
           booked == BookEach(layout, r.seatIds, r.user)
       IN IF Cardinality(SeatsBookedByUser(layout, r.user)) + Len(r.seatIds)
                > MaxSeatsPerUser
          THEN /\ Reply(p, 400, "CapacityExceeded", << >>)
               /\ UNCHANGED << db, succeeded >>
          ELSE IF AlreadyBookedSeats(layout, r.seatIds) # << >>
          THEN /\ Reply(p, 400, "Conflict", AlreadyBookedSeats(layout, r.seatIds))
               /\ UNCHANGED << db, succeeded >>
          ELSE IF SeatSaveOk(e, event[p], booked)
          THEN /\ db' = [db EXCEPT ![e] = SeatSaveDoc(e, event[p], booked)]
               /\ Reply(p, 200, "Booked", r.seatIds)
               /\ succeeded' = succeeded \cup {r}
          ELSE /\ Reply(p, 500, "ServerError", << >>)
               /\ UNCHANGED << db, succeeded >>
    /\ UNCHANGED << req, event, seatSections, seatingLayout >>

\* POST /api/bookings, up to the loads.
BookingsFind(p, e, user, seatIds, attendeeId) ==
    /\ Accept(p, [NoReq EXCEPT !.op = "post", !.eventId = e, !.user = user,
                                !.seatIds = seatIds, !.attendeeId = attendeeId])
    /\ FindEvent(p, e, TRUE)
    /\ UNCHANGED << db, succeeded, seatSections, seatingLayout >>

\* POST /api/bookings, from the conflict check to the response.
Bookings(p) ==
    /\ pc[p] = "loaded"
    /\ req[p].op = "post"
    /\ LET r == req[p]
           e == r.eventId
           layout == event[p].seatingLayout
           updatedLayout == UpdatedLayout(layout, r.seatIds, r.attendeeId)
       IN IF AlreadyBookedSeats(layout, r.seatIds) # << >>
          THEN /\ Reply(p, 400, "Conflict", AlreadyBookedSeats(layout, r.seatIds))
               /\ UNCHANGED << db, succeeded >>
          ELSE IF VersionMatches(e, event[p])
          THEN /\ db' = [db EXCEPT ![e] = ArraySaveDoc(e, updatedLayout)]
               /\ Reply(p, 200, "Booked", r.seatIds)
               /\ succeeded' = succeeded \cup {r}
          ELSE /\ Reply(p, 500, "ServerError", << >>)
               /\ UNCHANGED << db, succeeded >>
    /\ UNCHANGED << req, event, seatSections, seatingLayout >>

\* PUT /api/events/:eventId/seats/:seatId, up to the load.
UpdateSeatFind(p, e, seatId, occupied, attendeeId) ==
    /\ Accept(p, [NoReq EXCEPT !.op = "seat", !.eventId = e, !.seatId = seatId,
                                !.occupied = occupied, !.attendeeId = attendeeId])
    /\ FindEvent(p, e, FALSE)
    /\ UNCHANGED << db, succeeded, seatSections, seatingLayout >>

\* seat.occupied = occupied || seat.occupied;
\* seat.attendee = attendeeId || seat.attendee
OverrideSeat(seat, occupied, attendeeId) ==
    [seat EXCEPT !.occupied = (occupied = "true") \/ @,
                 !.attendee = IF attendeeId # Null THEN attendeeId ELSE @]

\* PUT /api/events/:eventId/seats/:seatId, from the seat lookup to the response.
UpdateSeat(p) ==
    /\ pc[p] = "loaded"
    /\ req[p].op = "seat"
    /\ LET r == req[p]
           e == r.eventId
           layout == event[p].seatingLayout
           i == FindSeat(layout, r.seatId)
           updated == [layout EXCEPT ![i] = OverrideSeat(@, r.occupied, r.attendeeId)]
       IN IF i = 0
          THEN /\ Reply(p, 404, "SeatNotFound", << >>)
               /\ UNCHANGED db
          ELSE IF SeatSaveOk(e, event[p], updated)
          THEN /\ db' = [db EXCEPT ![e] = SeatSaveDoc(e, event[p], updated)]
               /\ Reply(p, 200, "SeatUpdated", << r.seatId >>)
          ELSE /\ Reply(p, 500, "ServerError", << >>)
               /\ UNCHANGED db
    /\ UNCHANGED << req, event, succeeded, seatSections, seatingLayout >>

\* PUT /api/events/:eventId, up to the load:
\* Event.findOne({ _id: eventId, organizerId: userId }).
UpdateEventFind(p, e, user, eventName) ==
    /\ Accept(p, [NoReq EXCEPT !.op = "event", !.eventId = e, !.user = user,
                                !.eventName = eventName])
    /\ IF EventExists(e) /\ db[e].organizerId = user
       THEN /\ pc' = [pc EXCEPT ![p] = "loaded"]
            /\ event' = [event EXCEPT ![p] = db[e]]
            /\ UNCHANGED resp
       ELSE /\ Reply(p, 404, "EventNotFound", << >>)
            /\ UNCHANGED event
    /\ UNCHANGED << db, succeeded, seatSections, seatingLayout >>

\* PUT /api/events/:eventId, from the assignments to the response:
\* event.eventName = req.body.eventName || event.eventName (the other detail
\* fields alike); save() writes the fields that changed, and no seat field
\* is among them.
UpdateEvent(p) ==
    /\ pc[p] = "loaded"
    /\ req[p].op = "event"
    /\ LET r == req[p]
           e == r.eventId
           eventName == IF r.eventName # Null THEN r.eventName ELSE event[p].eventName
       IN /\ db' = IF eventName # event[p].eventName
                   THEN [db EXCEPT ![e].eventName = eventName]
                   ELSE db
          /\ Reply(p, 200, "EventUpdated", << >>)
    /\ UNCHANGED << req, event, succeeded, seatSections, seatingLayout >>

Next ==
    \/ \E e \in EventIds, organizerId \in Organizers, eventName \in EventNames,
          sections \in SectionLists :
          CreateEvent(e, organizerId, eventName, sections)
    \/ \E p \in Procs, e \in EventIds, user \in Users, seatIds \in SeatIdLists :
          BookSeatsFind(p, e, user, seatIds)
    \/ \E p \in Procs : BookSeats(p)
    \/ \E p \in Procs, e \in EventIds, user \in Users, seatIds \in SeatIdLists,
          attendeeId \in BodyAttendees :
          BookingsFind(p, e, user, seatIds, attendeeId)
    \/ \E p \in Procs : Bookings(p)
    \/ \E p \in Procs, e \in EventIds, seatId \in SeatParams,
          occupied \in BodyOccupied, attendeeId \in BodyAttendees :
          UpdateSeatFind(p, e, seatId, occupied, attendeeId)
    \/ \E p \in Procs : UpdateSeat(p)

Spec == Init /\ [][Next]_vars

\* Every operation on seats and events, with two events in the collection.
FrameNext ==
    \/ \E e \in AllEventIds, organizerId \in Organizers, eventName \in EventNames,
          sections \in SectionLists :
          CreateEvent(e, organizerId, eventName, sections)
    \/ \E p \in Procs, e \in AllEventIds, user \in Users, seatIds \in SeatIdLists :
          BookSeatsFind(p, e, user, seatIds)
    \/ \E p \in Procs : BookSeats(p)
    \/ \E p \in Procs, e \in AllEventIds, user \in Users, seatIds \in SeatIdLists,
          attendeeId \in BodyAttendees :
          BookingsFind(p, e, user, seatIds, attendeeId)
    \/ \E p \in Procs : Bookings(p)
    \/ \E p \in Procs, e \in AllEventIds, seatId \in SeatParams,
          occupied \in BodyOccupied, attendeeId \in BodyAttendees :
          UpdateSeatFind(p, e, seatId, occupied, attendeeId)
    \/ \E p \in Procs : UpdateSeat(p)
    \/ \E p \in Procs, e \in AllEventIds, user \in Users,
          eventName \in BodyEventNames :
          UpdateEventFind(p, e, user, eventName)
    \/ \E p \in Procs : UpdateEvent(p)

FrameSpec == FrameInit /\ [][FrameNext]_vars

\* Event creation on its own, over the seatSections of GenSectionLists.
GenNext ==
    \E e \in EventIds, organizerId \in Organizers, eventName \in EventNames,
       sections \in GenSectionLists :
       CreateEvent(e, organizerId, eventName, sections)

GenSpec == Init /\ [][GenNext]_vars

(* ---------------------- vocabulary of the properties -------------------- *)

Range(seq) == { seq[k] : k \in 1..Len(seq) }

Booking(r) == r.op \in {"put", "post"}

\* The identity the Auth collaborator verified for the request.
Caller(r) == r.user

\* The request body does not name somebody else as the attendee.
Honest(r) == r.op = "post" => r.attendeeId = r.user

\* The handler p takes its second step: from the loaded copy to the response.
Completes(p) == pc[p] = "loaded" /\ pc'[p] = "done"

\* The handler p has answered a request for which it had loaded the event.
Answered(p) == pc[p] = "done" /\ event[p].exists

KnownIds(layout) == { layout[i].id : i \in 1..Len(layout) }

\* The requested ids that name an occupied seat of the layout.
OccupiedRequested(layout, seatIds) ==
    { id \in Range(seatIds) :
        \E i \in 1..Len(layout) : layout[i].id = id /\ layout[i].occupied }

\* The requested ids that name a Free seat of the layout.
FreeRequested(layout, seatIds) ==
    { id \in Range(seatIds) :
        \E i \in 1..Len(layout) :
            layout[i].id = id /\ ~layout[i].occupied /\ layout[i].attendee = Null }

\* The seats of the layout that are occupied and attributed to attendee a.
HeldBy(layout, a) ==
    { i \in 1..Len(layout) : layout[i].occupied /\ layout[i].attendee = a }

\* The request names distinct, existing, Free seats and stays within the cap,
\* judged on the given layout.
ValidOn(layout, r) ==
    /\ r.seatIds # << >>
    /\ Cardinality(Range(r.seatIds)) = Len(r.seatIds)
    /\ Range(r.seatIds) \subseteq KnownIds(layout)
    /\ FreeRequested(layout, r.seatIds) = Range(r.seatIds)
    /\ Cardinality(HeldBy(layout, Caller(r))) + Len(r.seatIds) <= MaxSeatsPerUser

\* Every seat with one of the ids is occupied by attendee a in the layout.
OccupiedBy(layout, ids, a) ==
    \A i \in 1..Len(layout) :
        layout[i].id \in ids => layout[i].occupied /\ layout[i].attendee = a

(* ------------------------------- claims -------------------------------- *)

\* C1 (as stated): two booking requests of different attendees that both
\* loaded the event with a common requested seat Free, each valid on the
\* layout it loaded, end with exactly one success and one Conflict, and the
\* shared seat is occupied by the successful requester.
C1_NoDoubleBooking ==
    \A p \in Procs, q \in Procs :
        ( /\ p # q
          /\ Answered(p) /\ Answered(q)
          /\ Booking(req[p]) /\ Booking(req[q])
          /\ Honest(req[p]) /\ Honest(req[q])
          /\ req[p].eventId = req[q].eventId
          /\ Caller(req[p]) # Caller(req[q])
          /\ ValidOn(event[p].seatingLayout, req[p])
          /\ ValidOn(event[q].seatingLayout, req[q])
          /\ Range(req[p].seatIds) \cap Range(req[q].seatIds) # {} )
        =>
        \/ /\ resp[p].status = 200 /\ resp[q].reason = "Conflict"
           /\ OccupiedBy(db[req[p].eventId].seatingLayout,
                         Range(req[p].seatIds) \cap Range(req[q].seatIds),
                         Caller(req[p]))
        \/ /\ resp[q].status = 200 /\ resp[p].reason = "Conflict"
           /\ OccupiedBy(db[req[p].eventId].seatingLayout,
                         Range(req[p].seatIds) \cap Range(req[q].seatIds),
                         Caller(req[q]))

\* C2 (as stated): two booking requests for disjoint sets of Free, existing
\* seats of one event, each within the cap, both return success, and once
\* both have answered every requested seat is stored as occupied by the
\* attendee of the request that asked for it.
C2_DisjointAllSucceed ==
    \A p \in Procs, q \in Procs :
        ( /\ p # q
          /\ \A o \in Procs \ {p, q} : pc[o] = "idle"
          /\ Answered(p) /\ Answered(q)
          /\ Booking(req[p]) /\ Booking(req[q])
          /\ Honest(req[p]) /\ Honest(req[q])
          /\ req[p].eventId = req[q].eventId
          /\ ValidOn(event[p].seatingLayout, req[p])
          /\ ValidOn(event[q].seatingLayout, req[q])
          /\ Range(req[p].seatIds) \cap Range(req[q].seatIds) = {} )
        =>
        /\ resp[p].status = 200
        /\ resp[q].status = 200
        /\ OccupiedBy(db[req[p].eventId].seatingLayout, Range(req[p].seatIds),
                      Caller(req[p]))
        /\ OccupiedBy(db[req[p].eventId].seatingLayout, Range(req[q].seatIds),
                      Caller(req[q]))

\* C3 (as stated): in every reachable state no attendee holds more than 6
\* occupied seats of an event.
C3_CapInvariant ==
    \A e \in EventIds, a \in Users :
        Cardinality(HeldBy(db[e].seatingLayout, a)) <= MaxSeatsPerUser

\* C4 (as stated): a booking request that names at least one seat occupied in
\* the layout it works on is answered Conflict with exactly the occupied
\* requested ids, and stores nothing.
C4_ConflictAlways ==
    [][ \A p \in Procs :
          ( /\ Completes(p)
            /\ Booking(req[p])
            /\ OccupiedRequested(event[p].seatingLayout, req[p].seatIds) # {} )
          =>
          /\ resp'[p].reason = "Conflict"
          /\ Range(resp'[p].ids) =
                OccupiedRequested(event[p].seatingLayout, req[p].seatIds)
          /\ db' = db ]_vars

\* C4 (amended): a booking request that names at least one seat occupied in
\* the layout it loaded is rejected and stores nothing; the rejection is
\* Conflict with exactly the occupied requested ids, except on PUT
\* book-seats when the caller's seats plus the requested ones exceed 6,
\* where the cap check comes first and the answer is CapacityExceeded.
C4_AllOrNothing ==
    [][ \A p \in Procs :
          ( /\ Completes(p)
            /\ Booking(req[p])
            /\ OccupiedRequested(event[p].seatingLayout, req[p].seatIds) # {} )
          =>
          /\ db' = db
          /\ resp'[p].status = 400
          /\ IF /\ req[p].op = "put"
                /\ Cardinality({ i \in 1..Len(event[p].seatingLayout) :
                                    event[p].seatingLayout[i].attendee = req[p].user })
                   + Len(req[p].seatIds) > MaxSeatsPerUser
             THEN resp'[p].reason = "CapacityExceeded"
             ELSE /\ resp'[p].reason = "Conflict"
                  /\ Range(resp'[p].ids) =
                        OccupiedRequested(event[p].seatingLayout, req[p].seatIds) ]_vars

\* C4 witness: a batch with an occupied seat and a Free seat was answered
\* Conflict, and the Free seat it named is still Free in the store.
C4_Witness ==
    \E p \in Procs :
        /\ Answered(p)
        /\ Booking(req[p])
        /\ resp[p].reason = "Conflict"
        /\ OccupiedRequested(event[p].seatingLayout, req[p].seatIds) # {}
        /\ FreeRequested(event[p].seatingLayout, req[p].seatIds) # {}
        /\ FreeRequested(db[req[p].eventId].seatingLayout, req[p].seatIds)
             = FreeRequested(event[p].seatingLayout, req[p].seatIds)

\* C5 (as stated): every stored seat is occupied exactly when its attendee
\* is set.
C5_SeatWellFormed ==
    \A e \in EventIds :
        \A i \in 1..Len(db[e].seatingLayout) :
            db[e].seatingLayout[i].occupied
                <=> (db[e].seatingLayout[i].attendee # Null)

\* C6 (as stated): a booking request equal to one that already succeeded,
\* worked on a layout that still shows its seats occupied, is answered
\* Conflict and changes neither the layout nor the attendee's seat count.
C6_RepeatIsConflict ==
    [][ \A p \in Procs :
          ( /\ Completes(p)
            /\ Booking(req[p])
            /\ req[p] \in succeeded
            /\ OccupiedRequested(event[p].seatingLayout, req[p].seatIds) # {} )
          =>
          /\ resp'[p].reason = "Conflict"
          /\ db' = db ]_vars

\* C6 (amended): a booking request equal to one that already succeeded,
\* worked on a layout that still shows one of its seats occupied, is
\* rejected and changes neither the layout nor any attendee's seat count:
\* with Conflict on POST /api/bookings, and on PUT book-seats with Conflict
\* when the caller's seats plus the requested ones are at most 6 and with
\* CapacityExceeded when they exceed 6.
C6_RepeatRejected ==
    [][ \A p \in Procs :
          ( /\ Completes(p)
            /\ Booking(req[p])
            /\ req[p] \in succeeded
            /\ OccupiedRequested(event[p].seatingLayout, req[p].seatIds) # {} )
          =>
          /\ db' = db
          /\ \A a \in Users :
                HeldBy(db'[req[p].eventId].seatingLayout, a)
                    = HeldBy(db[req[p].eventId].seatingLayout, a)
          /\ resp'[p].reason =
                IF /\ req[p].op = "put"
                   /\ Cardinality({ i \in 1..Len(event[p].seatingLayout) :
                                       event[p].seatingLayout[i].attendee = req[p].user })
                      + Len(req[p].seatIds) > MaxSeatsPerUser
                THEN "CapacityExceeded"
                ELSE "Conflict" ]_vars

\* C6 witness: the repeat of a succeeded PUT booking of more than three
\* seats was answered CapacityExceeded.
C6_Witness ==
    \E p \in Procs :
        /\ Answered(p)
        /\ req[p].op = "put"
        /\ req[p] \in succeeded
        /\ OccupiedRequested(event[p].seatingLayout, req[p].seatIds)
             = Range(req[p].seatIds)
        /\ resp[p].reason = "CapacityExceeded"

\* C7 (as stated): a booking request of n distinct, existing, Free seats by
\* an attendee holding k occupied seats, with nothing stored in between, is
\* answered CapacityExceeded and stores nothing when k + n > 6, and succeeds
\* when k + n <= 6.
C7_CapacityBoundary ==
    [][ \A p \in Procs :
          ( /\ Completes(p)
            /\ Booking(req[p])
            /\ Honest(req[p])
            /\ db[req[p].eventId] = event[p]
            /\ Cardinality(Range(req[p].seatIds)) = Len(req[p].seatIds)
            /\ FreeRequested(event[p].seatingLayout, req[p].seatIds)
                 = Range(req[p].seatIds) )
          =>
          IF Cardinality(HeldBy(event[p].seatingLayout, Caller(req[p])))
                + Len(req[p].seatIds) > MaxSeatsPerUser
          THEN resp'[p].reason = "CapacityExceeded" /\ db' = db
          ELSE resp'[p].status = 200 ]_vars

\* C8 (as stated): a booking request with a seat id that is not in the
\* event's layout is answered InvalidSeat with the unknown ids, and no seat
\* of the event changes.
C8_UnknownSeatRejected ==
    [][ \A p \in Procs :
          ( /\ Completes(p)
            /\ Booking(req[p])
            /\ ~(Range(req[p].seatIds) \subseteq KnownIds(event[p].seatingLayout)) )
          =>
          /\ resp'[p].reason = "InvalidSeat"
          /\ Range(resp'[p].ids)
               = Range(req[p].seatIds) \ KnownIds(event[p].seatingLayout)
          /\ db' = db ]_vars

\* C9 (as stated): when a booking request is answered success with
\* bookedSeats = S, every id of S is a seat of the event that was Free
\* before the call and is occupied by the caller after it, and no other
\* seat changed.
C9_SuccessIsExact ==
    [][ \A p \in Procs :
          ( /\ Completes(p)
            /\ Booking(req[p])
            /\ Honest(req[p])
            /\ db[req[p].eventId] = event[p]
            /\ resp'[p].status = 200 )
          =>
          LET before == db[req[p].eventId].seatingLayout
              after == db'[req[p].eventId].seatingLayout
              S == Range(resp'[p].ids)
          IN /\ S \subseteq KnownIds(before)
             /\ FreeRequested(before, resp'[p].ids) = S
             /\ OccupiedBy(after, S, Caller(req[p]))
             /\ Len(after) = Len(before)
             /\ \A i \in 1..Len(before) :
                    before[i].id \notin S => after[i] = before[i] ]_vars

\* C10 (as stated): after a successful booking request the attendee stored
\* on every newly occupied seat is the identity Auth verified for the
\* request.
C10_AttributedToCaller ==
    [][ \A p \in Procs :
          ( /\ Completes(p)
            /\ Booking(req[p])
            /\ resp'[p].status = 200 )
          =>
          LET before == db[req[p].eventId].seatingLayout
              after == db'[req[p].eventId].seatingLayout
          IN \A i \in 1..Len(after) :
                (~before[i].occupied /\ after[i].occupied)
                    => after[i].attendee = Caller(req[p]) ]_vars

\* Event e is inserted in this step.
Created(e) == ~db[e].exists /\ db'[e].exists

\* The handler p commits a booking of event e that it answers with success.
CommitsBooking(p, e) ==
    /\ Completes(p)
    /\ Booking(req[p])
    /\ req[p].eventId = e
    /\ resp'[p].status = 200

\* C11 (as stated): every seat is Free when its event is created, and a step
\* that turns a stored seat from Free to Occupied is the commit of a
\* successful booking request that named that seat; no other operation
\* (seat-status override, event update) makes that transition.
C11_OnlyBookingOccupies ==
    [][ \A e \in DOMAIN db :
          /\ Created(e) =>
                \A i \in 1..Len(db'[e].seatingLayout) :
                    /\ ~db'[e].seatingLayout[i].occupied
                    /\ db'[e].seatingLayout[i].attendee = Null
          /\ db[e].exists =>
                \A i \in 1..Len(db[e].seatingLayout) :
                    ( /\ ~db[e].seatingLayout[i].occupied
                      /\ db'[e].seatingLayout[i].occupied )
                    => \E p \in Procs :
                          /\ CommitsBooking(p, e)
                          /\ Includes(req[p].seatIds, db[e].seatingLayout[i].id) ]_vars

\* The sum of rows x seatsPerRow over the sections.
RECURSIVE SeatCount(_)
SeatCount(sections) ==
    IF sections = << >> THEN 0
    ELSE Head(sections).rows * Head(sections).seatsPerRow + SeatCount(Tail(sections))

\* No two seats of the layout have the same id.
UniqueIds(layout) ==
    \A i, j \in 1..Len(layout) : i # j => layout[i].id # layout[j].id

\* C12 (as stated): for every list of section specifications (rows >= 0,
\* seatsPerRow >= 0, repeated section names and zero-sized sections
\* included) the layout built at event creation has exactly the sum of
\* rows x seatsPerRow seats, and no two of its seats share an id.
C12_CountAndUniqueIds ==
    \A e \in DOMAIN db :
        db[e].exists =>
            /\ Len(seatingLayout) = SeatCount(seatSections)
            /\ Len(db[e].seatingLayout) = SeatCount(seatSections)
            /\ UniqueIds(seatingLayout)
            /\ UniqueIds(db[e].seatingLayout)

\* The creation of event e has run on exactly these seatSections.
CreatedFrom(e, sections) == db[e].exists /\ seatSections = sections

GoldPrefixed(rowLabel, s) == <<"G", "o", "l", "d", "-", rowLabel, s>>

\* C13 (as stated): the single section "Gold" with rows = 2 and
\* seatsPerRow = 3 yields exactly 6 seats whose ids are, in order, A1, A2,
\* A3, B1, B2, B3, whose rows are 1,1,1,2,2,2, all with occupied = false.
C13_GoldExampleBare ==
    \A e \in DOMAIN db :
        CreatedFrom(e, << GoldSection >>) =>
            /\ Len(seatingLayout) = 6
            /\ [i \in 1..6 |-> seatingLayout[i].id]
                 = << <<"A", "1">>, <<"A", "2">>, <<"A", "3">>,
                      <<"B", "1">>, <<"B", "2">>, <<"B", "3">> >>
            /\ [i \in 1..6 |-> seatingLayout[i].row] = <<1, 1, 1, 2, 2, 2>>
            /\ \A i \in 1..6 : ~seatingLayout[i].occupied

\* C13 (amended): the single section "Gold" with rows = 2 and seatsPerRow = 3
\* yields exactly 6 seats, generated and stored, whose ids are, in order,
\* Gold-A1, Gold-A2, Gold-A3, Gold-B1, Gold-B2, Gold-B3, whose rows are
\* 1,1,1,2,2,2, all with occupied = false.
C13_GoldExample ==
    \A e \in DOMAIN db :
        CreatedFrom(e, << GoldSection >>) =>
            \A layout \in { seatingLayout, db[e].seatingLayout } :
                /\ Len(layout) = 6
                /\ [i \in 1..6 |-> layout[i].id]
                     = << GoldPrefixed("A", "1"), GoldPrefixed("A", "2"),
                          GoldPrefixed("A", "3"), GoldPrefixed("B", "1"),
                          GoldPrefixed("B", "2"), GoldPrefixed("B", "3") >>
                /\ [i \in 1..6 |-> layout[i].row] = <<1, 1, 1, 2, 2, 2>>
                /\ \A i \in 1..6 : ~layout[i].occupied

\* C13 witness: an event was created from the single 2 x 3 section "Gold"
\* and its stored layout has six seats.
C13_Witness ==
    /\ CreatedFrom("e1", << GoldSection >>)
    /\ Len(db["e1"].seatingLayout) = 6

\* The lowercased section names of the generation inputs.
Lowered(name) ==
    CASE name = <<"G">> -> <<"g">>
      [] name = <<"V">> -> <<"v">>
      [] name = <<"G", "o", "l", "d">> -> <<"g", "o", "l", "d">>

\* The position of seat (r, s) of section j in the layout of the sections.
PositionOf(sections, j, r, s) ==
    SeatCount(SubSeq(sections, 1, j - 1)) + (r - 1) * sections[j].seatsPerRow + s

\* C14: for every section list the generated sequence lists the seats in
\* section input order, within a section by ascending row 1..rows, within a
\* row by ascending column 1..seatsPerRow: the seat (r, s) of section j
\* stands at the position that order gives it, with row = r, column = s,
\* type the lowercased section name, occupied = false and no attendee, and
\* there are no other seats; the stored layout has the same seats in the
\* same order.
C14_GenerationOrder ==
    \A e \in DOMAIN db :
        db[e].exists =>
            /\ Len(seatingLayout) = SeatCount(seatSections)
            /\ \A j \in 1..Len(seatSections) :
                 \A r \in 1..seatSections[j].rows :
                   \A s \in 1..seatSections[j].seatsPerRow :
                     LET seat == seatingLayout[PositionOf(seatSections, j, r, s)]
                     IN /\ seat.row = r
                        /\ seat.column = s
                        /\ seat.type = Lowered(seatSections[j].sectionName)
                        /\ seat.occupied = FALSE
                        /\ seat.attendee = Null
            /\ Len(db[e].seatingLayout) = Len(seatingLayout)
            /\ \A i \in 1..Len(seatingLayout) :
                 /\ db[e].seatingLayout[i].id = seatingLayout[i].id
                 /\ db[e].seatingLayout[i].row = seatingLayout[i].row
                 /\ db[e].seatingLayout[i].column = seatingLayout[i].column
                 /\ db[e].seatingLayout[i].occupied = FALSE
                 /\ db[e].seatingLayout[i].attendee = Null

\* C14 witness: an event was created from two sections of different names,
\* each with two rows of two seats.
C14_Witness ==
    /\ db["e1"].exists
    /\ Len(seatSections) = 2
    /\ seatSections[1].sectionName # seatSections[2].sectionName
    /\ \A j \in 1..2 : seatSections[j].rows = 2 /\ seatSections[j].seatsPerRow = 2
    /\ Len(seatingLayout) = 8

\* C15 (as stated): occupancy is monotonic: a seat that is stored occupied
\* is never stored Free again, whatever booking requests (PUT book-seats,
\* POST /api/bookings) and seat-status requests (occupied = false included)
\* run and however they interleave.
C15_OccupancyMonotonic ==
    [][ \A e \in DOMAIN db :
          db[e].exists =>
              \A i \in 1..Len(db[e].seatingLayout) :
                  db[e].seatingLayout[i].occupied
                      => db'[e].seatingLayout[i].occupied ]_vars

\* C16 (as stated): ownership is stable: once a seat is stored occupied with
\* attendee a, its stored attendee stays a, whatever booking requests and
\* seat-status requests (any attendeeId in the body) follow.
C16_OwnershipStable ==
    [][ \A e \in DOMAIN db :
          db[e].exists =>
              \A i \in 1..Len(db[e].seatingLayout) :
                  ( /\ db[e].seatingLayout[i].occupied
                    /\ db[e].seatingLayout[i].attendee # Null )
                  => db'[e].seatingLayout[i].attendee
                        = db[e].seatingLayout[i].attendee ]_vars

\* The ids of the seats that the request names.
NamedSeats(r) ==
    CASE r.op \in {"put", "post"} -> Range(r.seatIds)
      [] r.op = "seat" -> { r.seatId }
      [] OTHER -> {}

\* C17 (as stated): after the creation of an event every step of every
\* operation (PUT book-seats, POST /api/bookings, seat-status override,
\* event update), answered with success or with a rejection, leaves the
\* event's sequence of seats (length, order, id, row, column) as it was,
\* changes occupied or attendee only on seats that the operation names, and
\* leaves the layouts of all other events as they were.
C17_LayoutFrame ==
    [][ \A e \in DOMAIN db :
          db[e].exists =>
              LET before == db[e].seatingLayout
                  after == db'[e].seatingLayout
              IN /\ Len(after) = Len(before)
                 /\ \A i \in 1..Len(before) :
                        /\ after[i].id = before[i].id
                        /\ after[i].row = before[i].row
                        /\ after[i].column = before[i].column
                 /\ \A i \in 1..Len(before) :
                        after[i] # before[i] =>
                            \E p \in Procs :
                                /\ Completes(p)
                                /\ req[p].eventId = e
                                /\ before[i].id \in NamedSeats(req[p]) ]_vars

====
